---- MODULE Spec2Model ----
(***************************************************************************)
(* Model of rust_engine (src/rust_engine/src/lib.rs): five pure functions  *)
(* exported to Python through pyo3.                                        *)
(*                                                                         *)
(* The functions compute on f64 and i64.  Both are modelled with their     *)
(* machine semantics at a reduced width:                                   *)
(*   - f64 is a binary floating-point format with MantBits bits of         *)
(*     significand, exponents -FracBits..MaxExp, gradual underflow,        *)
(*     round-to-nearest-even, overflow to infinity, and NaN.  A finite     *)
(*     value is stored as an integer count n of units of 2^-FracBits.      *)
(*     The sign of zero is not modelled (-0.0 == 0.0 in every comparison   *)
(*     the code makes, and the code never divides by a zero).              *)
(*   - i64 is a two's complement integer of IntBits bits.  An addition     *)
(*     that leaves the range panics when the crate is built with overflow  *)
(*     checks (the dev profile) and wraps when it is built without them    *)
(*     (the release profile); the model leaves the profile open.           *)
(***************************************************************************)
EXTENDS Integers, Sequences, FiniteSets

\* ------------------------------------------------------------------ bounds
MantBits == 10    \* significand bits of the modelled f64 (53 in the program)
FracBits == 1     \* the smallest exponent is -FracBits (-1074 in the program)
MaxExp == 3       \* the largest exponent of the last significand bit (971)
IntBits == 12     \* width of the modelled i64 (64 in the program)
MaxLen == 3       \* longest prices / quantities argument
MaxStrLen == 2    \* longest item / location argument, in characters

\* ------------------------------------------------------------ f64 values
Pow2(k) == 2 ^ k

Abs(x) == IF x < 0 THEN -x ELSE x
Sgn(x) == IF x < 0 THEN -1 ELSE IF x > 0 THEN 1 ELSE 0

Scale == Pow2(FracBits)                 \* units per 1.0
Fin(n) == [k |-> "fin", n |-> n]        \* the finite value n * 2^-FracBits
Num(i) == Fin(i * Scale)                \* the finite value i
INFINITY == [k |-> "inf", n |-> 1]      \* f64::INFINITY
NEG_INFINITY == [k |-> "inf", n |-> -1] \* f64::NEG_INFINITY
NAN == [k |-> "nan", n |-> 0]           \* f64::NAN
SignedInf(s) == IF s < 0 THEN NEG_INFINITY ELSE INFINITY

MaxFiniteUnits == (Pow2(MantBits) - 1) * Pow2(MaxExp + FracBits)
MAX == Fin(MaxFiniteUnits)              \* f64::MAX

IsNaN(x) == x.k = "nan"
IsInf(x) == x.k = "inf"
IsFinite(x) == x.k = "fin"

\* The exponent step at which a / d fits in MantBits bits.
RECURSIVE Shift(_, _, _)
Shift(a, d, j) == IF a \div d < Pow2(MantBits) THEN j ELSE Shift(a, 2 * d, j + 1)

\* The f64 nearest to the exact rational num / den units (den > 0):
\* round to nearest, ties to the even significand, overflow to infinity.
RoundRat(num, den) ==
    LET a == Abs(num)
        j == Shift(a, den, 0)
        d == den * Pow2(j)
        q == a \div d
        r == a % d
        up == (2 * r > d) \/ (2 * r = d /\ q % 2 = 1)
        n == (IF up THEN q + 1 ELSE q) * Pow2(j)
    IN  IF n > MaxFiniteUnits THEN SignedInf(num) ELSE Fin(Sgn(num) * n)

NegF(x) == IF IsNaN(x) THEN NAN ELSE [k |-> x.k, n |-> -x.n]

\* x + y
AddF(x, y) ==
    IF IsNaN(x) \/ IsNaN(y) THEN NAN
    ELSE IF IsInf(x) /\ IsInf(y) THEN (IF x.n = y.n THEN x ELSE NAN)
    ELSE IF IsInf(x) THEN x
    ELSE IF IsInf(y) THEN y
    ELSE RoundRat(x.n + y.n, 1)

\* x - y
SubF(x, y) == AddF(x, NegF(y))

\* x * y
MulF(x, y) ==
    IF IsNaN(x) \/ IsNaN(y) THEN NAN
    ELSE IF IsInf(x) \/ IsInf(y)
         THEN (IF x.n = 0 \/ y.n = 0 THEN NAN ELSE SignedInf(Sgn(x.n) * Sgn(y.n)))
    ELSE RoundRat(x.n * y.n, Scale)

\* x / y
DivF(x, y) ==
    IF IsNaN(x) \/ IsNaN(y) THEN NAN
    ELSE IF IsInf(x) THEN (IF IsInf(y) THEN NAN
                           ELSE SignedInf(x.n * (IF y.n < 0 THEN -1 ELSE 1)))
    ELSE IF IsInf(y) THEN Fin(0)
    ELSE IF y.n = 0 THEN (IF x.n = 0 THEN NAN ELSE SignedInf(x.n))
    ELSE RoundRat(Sgn(y.n) * x.n * Scale, Abs(y.n))

\* x % y: the remainder of the truncated division, exact, with the sign of x
RemF(x, y) ==
    IF IsNaN(x) \/ IsNaN(y) \/ IsInf(x) THEN NAN
    ELSE IF IsInf(y) THEN x
    ELSE IF y.n = 0 THEN NAN
    ELSE Fin(Sgn(x.n) * (Abs(x.n) % Abs(y.n)))

\* x < y and x <= y: false when either side is NaN
LtF(x, y) ==
    /\ ~IsNaN(x) /\ ~IsNaN(y)
    /\ IF IsInf(x) THEN x.n < 0 /\ y # x
       ELSE IF IsInf(y) THEN y.n > 0
       ELSE x.n < y.n
LeF(x, y) == ~IsNaN(x) /\ ~IsNaN(y) /\ (x = y \/ LtF(x, y))

\* f64::min and f64::max: a NaN operand is ignored in favour of the other
MinF(a, b) == IF IsNaN(a) THEN b ELSE IF IsNaN(b) THEN a ELSE IF LtF(b, a) THEN b ELSE a
MaxF(a, b) == IF IsNaN(a) THEN b ELSE IF IsNaN(b) THEN a ELSE IF LtF(a, b) THEN b ELSE a

\* ------------------------------------------------------------ i64 values
I64_MIN == -Pow2(IntBits - 1)
I64_MAX == Pow2(IntBits - 1) - 1
InI64(x) == I64_MIN <= x /\ x <= I64_MAX
Wrap(x) == ((x - I64_MIN) % Pow2(IntBits)) + I64_MIN

\* `q as f64` and `len as f64`: the nearest f64
IntAsF64(i) == RoundRat(i * Scale, 1)

\* what an overflowing i64 addition does: panic with overflow checks, wrap without
AddI64(a, b, checks) ==
    IF InI64(a + b) THEN [panic |-> FALSE, v |-> a + b]
    ELSE IF checks THEN [panic |-> TRUE, v |-> 0]
    ELSE [panic |-> FALSE, v |-> Wrap(a + b)]

\* ------------------------------------------------------------ strings
\* A string is a sequence of Unicode scalar values; a Rust String holds its
\* UTF-8 encoding and String::len() is the number of bytes of that encoding.
Utf8Len(c) == IF c < 128 THEN 1 ELSE IF c < 2048 THEN 2 ELSE IF c < 65536 THEN 3 ELSE 4

RECURSIVE StrLen(_)
StrLen(s) == IF s = <<>> THEN 0 ELSE Utf8Len(Head(s)) + StrLen(Tail(s))

\* ------------------------------------------------------------ outcomes
\* What the Python caller gets: a returned value, the PyValueError of an Err,
\* or the PanicException pyo3 raises for a Rust panic.
Ok(v) == [status |-> "Ok", value |-> v]
Err(msg) == [status |-> "ValueError", value |-> msg]
Panic == [status |-> "PanicException", value |-> "attempt to add with overflow"]
Calling == [status |-> "calling", value |-> "none"]

LengthMessage == "Prices and quantities must have the same length"

\* ------------------------------------------------------------ folds
\* fold(init, f64::min), fold(init, f64::max), sum::<f64>(), sum::<i64>(),
\* and the zip(..).map(p * q as f64).sum() of the weighted sum: all left to right.
RECURSIVE FoldMin(_, _)
FoldMin(acc, s) == IF s = <<>> THEN acc ELSE FoldMin(MinF(acc, Head(s)), Tail(s))

RECURSIVE FoldMax(_, _)
FoldMax(acc, s) == IF s = <<>> THEN acc ELSE FoldMax(MaxF(acc, Head(s)), Tail(s))

RECURSIVE SumF64(_, _)
SumF64(acc, s) == IF s = <<>> THEN acc ELSE SumF64(AddF(acc, Head(s)), Tail(s))

RECURSIVE SumI64(_, _, _)
SumI64(acc, s, checks) ==
    IF s = <<>> \/ acc.panic THEN acc
    ELSE SumI64(AddI64(acc.v, Head(s), checks), Tail(s), checks)

RECURSIVE SumProducts(_, _, _)
SumProducts(acc, ps, qs) ==
    IF ps = <<>> \/ qs = <<>> THEN acc
    ELSE SumProducts(AddF(acc, MulF(Head(ps), IntAsF64(Head(qs)))), Tail(ps), Tail(qs))

\* ------------------------------------------------------------ the functions
\* Mutant: the fold seeded at 0.0 instead of f64::INFINITY.
cheapest_SeededAtZero(prices) == FoldMin(Num(0), prices)

cheapest(prices) == FoldMin(INFINITY, prices)

\* Mutant: the delta clamped at zero.
savings_Clamped(current, cheapest_price) ==
    MaxF(Num(0), SubF(current, cheapest_price))

savings(current, cheapest_price) == SubF(current, cheapest_price)

ItemWeight == 100
LocationWeight == 50
HashModulus == 1000
BasePrice == 400

\* Mutant: the strings measured in characters (chars().count()) instead of bytes.
predict_price_CharCount(item, location) ==
    LET hash == RemF(AddF(MulF(IntAsF64(Len(item)), Num(ItemWeight)),
                          MulF(IntAsF64(Len(location)), Num(LocationWeight))),
                     Num(HashModulus))
    IN  AddF(Num(BasePrice), hash)

predict_price(item, location) ==
    LET hash == RemF(AddF(MulF(IntAsF64(StrLen(item)), Num(ItemWeight)),
                          MulF(IntAsF64(StrLen(location)), Num(LocationWeight))),
                     Num(HashModulus))
    IN  AddF(Num(BasePrice), hash)

StatKeys == {"mean", "min_val", "max_val", "total_qty"}

\* Mutant: the quantity total computed in the empty-prices branch too.
aggregate_stats_TotalWhenEmpty(prices, quantities, checks) ==
    LET total_qty == SumI64([panic |-> FALSE, v |-> 0], quantities, checks)
    IN  IF total_qty.panic THEN Panic
        ELSE IF prices = <<>>
        THEN Ok([mean |-> Num(0), min_val |-> Num(0), max_val |-> Num(0),
                 total_qty |-> IntAsF64(total_qty.v)])
        ELSE Ok([mean |-> DivF(SumF64(Num(0), prices), IntAsF64(Len(prices))),
                 min_val |-> FoldMin(INFINITY, prices),
                 max_val |-> FoldMax(NEG_INFINITY, prices),
                 total_qty |-> IntAsF64(total_qty.v)])

aggregate_stats(prices, quantities, checks) ==
    IF prices = <<>>
    THEN Ok([mean |-> Num(0), min_val |-> Num(0), max_val |-> Num(0), total_qty |-> Num(0)])
    ELSE LET mean == DivF(SumF64(Num(0), prices), IntAsF64(Len(prices)))
             min_val == FoldMin(INFINITY, prices)
             max_val == FoldMax(NEG_INFINITY, prices)
             total_qty == SumI64([panic |-> FALSE, v |-> 0], quantities, checks)
         IN  IF total_qty.panic THEN Panic
             ELSE Ok([mean |-> mean, min_val |-> min_val, max_val |-> max_val,
                      total_qty |-> IntAsF64(total_qty.v)])

\* Mutant: the empty-prices branch taken before the length check.
weighted_average_price_EmptyFirst(prices, quantities, checks) ==
    IF prices = <<>> THEN Ok(Num(0))
    ELSE IF Len(prices) # Len(quantities) THEN Err(LengthMessage)
    ELSE LET weighted_sum == SumProducts(Num(0), prices, quantities)
             total_qty == SumI64([panic |-> FALSE, v |-> 0], quantities, checks)
         IN  IF total_qty.panic THEN Panic
             ELSE IF total_qty.v = 0 THEN Ok(Num(0))
             ELSE Ok(DivF(weighted_sum, IntAsF64(total_qty.v)))

weighted_average_price(prices, quantities, checks) ==
    IF Len(prices) # Len(quantities) THEN Err(LengthMessage)
    ELSE IF prices = <<>> THEN Ok(Num(0))
    ELSE LET weighted_sum == SumProducts(Num(0), prices, quantities)
             total_qty == SumI64([panic |-> FALSE, v |-> 0], quantities, checks)
         IN  IF total_qty.panic THEN Panic
             ELSE IF total_qty.v = 0 THEN Ok(Num(0))
             ELSE Ok(DivF(weighted_sum, IntAsF64(total_qty.v)))

\* ------------------------------------------------------------ the caller's inputs
SeqsUpTo(S, n) == UNION {[1..k -> S] : k \in 0..n}

PriceValues == {Fin(1), Num(10), Num(20), MAX, INFINITY, NEG_INFINITY, NAN}
PairedPriceValues == {Num(10), Num(20), MAX}
QtyValues == {0, 1, 3, I64_MAX, I64_MIN}
ScalarValues == PriceValues \cup {Num(0), Num(-10)}
Chars == {97, 98, 233}   \* 'a', 'b' (one byte each in UTF-8), U+00E9 (two bytes)

PriceSeqs == SeqsUpTo(PriceValues, MaxLen)
PairedPriceSeqs == SeqsUpTo(PairedPriceValues, MaxLen)
QtySeqs == SeqsUpTo(QtyValues, MaxLen)
Strings == SeqsUpTo(Chars, MaxStrLen)

\* ------------------------------------------------------------ the state machine
VARIABLES
    call,     \* the function the caller invokes, and its arguments
    result    \* Calling until the function returns, then its outcome

vars == <<call, result>>

\* The caller picks a function and its arguments.
Init ==
    /\ result = Calling
    /\ \/ \E p \in PriceSeqs : call = [fn |-> "cheapest", prices |-> p]
       \/ \E c \in ScalarValues, k \in ScalarValues :
              call = [fn |-> "savings", current |-> c, cheapest |-> k]
       \/ \E i \in Strings, l \in Strings :
              call = [fn |-> "predict_price", item |-> i, location |-> l]
       \/ \E f \in {"aggregate_stats", "weighted_average_price"},
             p \in PairedPriceSeqs, q \in QtySeqs :
              call = [fn |-> f, prices |-> p, quantities |-> q]

Returns(fn, outcome) ==
    /\ call.fn = fn
    /\ result = Calling
    /\ result' = outcome
    /\ UNCHANGED call

CallCheapest == Returns("cheapest", Ok(cheapest(call.prices)))

CallSavings == Returns("savings", Ok(savings(call.current, call.cheapest)))

CallPredictPrice == Returns("predict_price", Ok(predict_price(call.item, call.location)))

\* overflow_checks: whether the crate was built with integer overflow checks
CallAggregateStats ==
    \E overflow_checks \in BOOLEAN :
        Returns("aggregate_stats",
                aggregate_stats(call.prices, call.quantities, overflow_checks))

CallWeightedAveragePrice ==
    \E overflow_checks \in BOOLEAN :
        Returns("weighted_average_price",
                weighted_average_price(call.prices, call.quantities, overflow_checks))

Next ==
    \/ CallCheapest
    \/ CallSavings
    \/ CallPredictPrice
    \/ CallAggregateStats
    \/ CallWeightedAveragePrice

Spec == Init /\ [][Next]_vars

\* ------------------------------------------------------------ properties
Returned(fn) == call.fn = fn /\ result # Calling
Elements(s) == {s[i] : i \in 1..Len(s)}
Zero == Num(0)
ZeroStats == [mean |-> Zero, min_val |-> Zero, max_val |-> Zero, total_qty |-> Zero]

\* The sum of the quantities as an integer, without the width of i64.
RECURSIVE IntegerSum(_)
IntegerSum(qs) == IF qs = <<>> THEN 0 ELSE Head(qs) + IntegerSum(Tail(qs))

\* The f64 sums over positions 1..i: of the prices, and of price[i] * quantity[i].
RECURSIVE PriceSumTo(_, _)
PriceSumTo(ps, i) == IF i = 0 THEN Zero ELSE AddF(PriceSumTo(ps, i - 1), ps[i])

RECURSIVE WeightedSumTo(_, _, _)
WeightedSumTo(ps, qs, i) ==
    IF i = 0 THEN Zero
    ELSE AddF(WeightedSumTo(ps, qs, i - 1), MulF(ps[i], IntAsF64(qs[i])))

\* C1: weighted_average_price fails with the ValueError carrying the fixed
\* message exactly when len(prices) # len(quantities); the length check comes
\* first, so empty prices with non-empty quantities is that error, not 0.0.
C1_LengthErrorIffMismatch ==
    Returned("weighted_average_price") =>
        /\ (result.status = "ValueError") <=> (Len(call.prices) # Len(call.quantities))
        /\ (result.status = "ValueError") => (result = Err(LengthMessage))

\* C1 witness: empty prices with three quantities has returned the error.
C1_Witness ==
    /\ Returned("weighted_average_price")
    /\ call.prices = <<>>
    /\ call.quantities = <<1, 1, 1>>
    /\ result = Err(LengthMessage)

\* C2 as claimed: whenever the quantities of an equal-length pair sum to integer
\* zero, weighted_average_price returns 0.0.
C2_ZeroTotalReturnsZero ==
    ( /\ Returned("weighted_average_price")
      /\ Len(call.prices) = Len(call.quantities)
      /\ IntegerSum(call.quantities) = 0 )
        => result = Ok(Zero)

\* C3 as claimed: for an equal-length pair weighted_average_price returns 0.0
\* when the sequences are empty, and when the quantity total is not zero it
\* returns sum(price[i] * quantity[i]) / sum(quantity[i]).
C3_WeightedAverageFormula ==
    ( /\ Returned("weighted_average_price")
      /\ Len(call.prices) = Len(call.quantities) )
        => IF call.prices = <<>> THEN result = Ok(Zero)
           ELSE IntegerSum(call.quantities) # 0 =>
                    result = Ok(DivF(WeightedSumTo(call.prices, call.quantities,
                                                   Len(call.prices)),
                                     IntAsF64(IntegerSum(call.quantities))))

\* C4: with empty prices aggregate_stats returns exactly the four keys, all 0.0,
\* whatever the quantities are (the quantity total is not computed).
C4_EmptyPricesAllZero ==
    (Returned("aggregate_stats") /\ call.prices = <<>>) =>
        /\ result.status = "Ok"
        /\ DOMAIN result.value = StatKeys
        /\ result.value = ZeroStats

\* C4 witness: empty prices with quantities of non-zero total has returned.
C4_Witness ==
    /\ Returned("aggregate_stats")
    /\ call.prices = <<>>
    /\ call.quantities = <<1, 3>>
    /\ result = Ok(ZeroStats)

\* C5 as claimed: with non-empty prices aggregate_stats returns the four keys
\* with the mean, minimum and maximum of the prices, and total_qty the sum of
\* all the quantities, whatever their number.
C5_NonEmptyStats ==
    (Returned("aggregate_stats") /\ call.prices # <<>>) =>
        /\ result.status = "Ok"
        /\ DOMAIN result.value = StatKeys
        /\ result.value.mean = DivF(PriceSumTo(call.prices, Len(call.prices)),
                                    IntAsF64(Len(call.prices)))
        /\ result.value.min_val \in Elements(call.prices)
        /\ \A e \in Elements(call.prices) : LeF(result.value.min_val, e)
        /\ result.value.max_val \in Elements(call.prices)
        /\ \A e \in Elements(call.prices) : LeF(e, result.value.max_val)
        /\ result.value.total_qty = IntAsF64(IntegerSum(call.quantities))

\* C6 as claimed: the length mismatch of weighted_average_price is the only
\* error outcome; every other function returns a value for every input.
C6_OnlyLengthMismatchFails ==
    result # Calling =>
        \/ result.status = "Ok"
        \/ /\ call.fn = "weighted_average_price"
           /\ Len(call.prices) # Len(call.quantities)
           /\ result = Err(LengthMessage)

\* C7 as claimed: for every non-empty price sequence cheapest returns an element
\* of it that is <= every element; for the empty sequence it returns +infinity.
C7_CheapestIsMinimum ==
    Returned("cheapest") =>
        /\ result.status = "Ok"
        /\ IF call.prices = <<>> THEN result.value = INFINITY
           ELSE /\ result.value \in Elements(call.prices)
                /\ \A e \in Elements(call.prices) : LeF(result.value, e)

\* C7 amended: cheapest returns the minimum of the elements that are not NaN
\* (an element of the sequence, <= every element that is not NaN), and
\* +infinity when there is no such element: the sequence is empty or all NaN.
C7_CheapestIsMinimumOfNumbers ==
    Returned("cheapest") =>
        LET numbers == {e \in Elements(call.prices) : ~IsNaN(e)}
        IN  /\ result.status = "Ok"
            /\ IF numbers = {} THEN result.value = INFINITY
               ELSE /\ result.value \in numbers
                    /\ \A e \in numbers : LeF(result.value, e)

\* C7 witness: a sequence holding a NaN and two prices has returned the lower one.
C7_Witness ==
    /\ Returned("cheapest")
    /\ call.prices = <<NAN, Num(20), Num(10)>>
    /\ result = Ok(Num(10))

C9_SavingsIsDifference ==
    Returned("savings") =>
        LET c == call.current
            k == call.cheapest
        IN  /\ result.status = "Ok"
            /\ (IsFinite(c) /\ IsFinite(k)) => result.value = RoundRat(c.n - k.n, 1)
            /\ LtF(c, k) => LtF(result.value, Zero)
            /\ (k = INFINITY /\ IsFinite(c)) => result.value = NEG_INFINITY
            /\ k = INFINITY => ~IsFinite(result.value)

\* C9 witness: a finite current price against the +infinity sentinel.
C9_Witness ==
    /\ Returned("savings")
    /\ call.current = Num(10)
    /\ call.cheapest = INFINITY
    /\ result = Ok(NEG_INFINITY)

\* C10 as claimed, for the calls that return: with non-empty prices the result
\* of aggregate_stats has min_val <= mean <= max_val and min_val = cheapest(prices).
C10_MeanBetweenExtrema ==
    (Returned("aggregate_stats") /\ call.prices # <<>> /\ result.status = "Ok") =>
        /\ LeF(result.value.min_val, result.value.mean)
        /\ LeF(result.value.mean, result.value.max_val)
        /\ result.value.min_val = cheapest(call.prices)
====
